---- MODULE Spec2Model ----
(***************************************************************************)
(* elkacal (src/main.py): an interactive session that keeps a list of      *)
(* recurring courses against a term calendar, pickles the list after every *)
(* menu action and exports it as an .ics document.                         *)
(*                                                                         *)
(* Conventions of the model                                                *)
(*   - a time of day (dt.time) is its number of minutes since midnight;    *)
(*     the text typed at a prompt ('%H:%M') is the pair <<hour, minute>>   *)
(*   - a date (dt.date) is its proleptic ordinal (date.toordinal()); the   *)
(*     text of a date in the term file is a string of the form YYYY-MM-DD  *)
(*   - a file is a record [exists, data]; the data of the pickle file is   *)
(*     the sequence of pickle items written so far                         *)
(***************************************************************************)
EXTENDS Integers, Sequences, FiniteSets, TLC

VARIABLES
    pc,             \* where the process is: "init", "top", "menu", "save", "writing",
                    \* or stopped: "terminated", "killed", "IndexError", "EOFError";
                    \* in SpecTimes and SpecResolver, the prompt that is open
    term_file,      \* rows of 22L.csv
    semester,       \* main: semester
    courses,        \* main: courses
    courses_bound,  \* whether main's name `courses` is bound yet in this process
    store,          \* the file {cal_name}.pickle
    choice          \* show_menu: the option chosen and what its action did

vars == <<pc, term_file, semester, courses, courses_bound, store, choice>>

----------------------------------------------------------------------------
(* Bounds of the model *)

\* Add is offered only while the list is shorter than this.
MaxCourses == 3

\* The term files of SpecResolver have at most this many rows.
MaxRows == 2

----------------------------------------------------------------------------
(* Constants of the program *)

WEEKDAY_CHOICES ==
    << <<"Monday", 1>>, <<"Tuesday", 2>>, <<"Wednesday", 3>>,
       <<"Thursday", 4>>, <<"Friday", 5>> >>

PARITY_CHOICES ==
    << <<"Weekly", <<"N", "P", "N/P">> >>,
       <<"Even weeks", <<"P">> >>,
       <<"Odd weeks", <<"N">> >>,
       <<"Custom", << >> >> >>

\* dt.timedelta(minutes=105)
DefaultDuration == 105

MinutesPerDay == 24 * 60

----------------------------------------------------------------------------
(* Sequences *)

Range(s) == {s[i] : i \in 1..Len(s)}

\* Python's `x in t` for a tuple t
In(x, t) == \E i \in 1..Len(t) : t[i] = x

\* The sequences without repetition over the members of s.
Arrangements(s) ==
    {t \in UNION {[1..n -> Range(s)] : n \in 0..Len(s)} :
        \A i, j \in 1..Len(t) : i # j => t[i] # t[j]}

----------------------------------------------------------------------------
(* Dates and times of day *)

\* dt.datetime.strptime(date_str, '%Y-%m-%d').date(), on the dates of the model
ParseDate(date_str) ==
    CASE date_str = "2022-02-28" -> 738214
      [] date_str = "2022-03-01" -> 738215
      [] date_str = "2022-03-07" -> 738221
      [] date_str = "2022-03-14" -> 738228

\* date.isoweekday(): toordinal() % 7 or 7
IsoWeekday(date) == IF date % 7 = 0 THEN 7 ELSE date % 7

\* date.strftime('%a')
DayAbbr(date) == <<"Mon", "Tue", "Wed", "Thu", "Fri", "Sat", "Sun">>[IsoWeekday(date)]

\* int(weekday_str), on the digits a term file holds
ParseInt(weekday_str) ==
    CHOOSE n \in 1..7 : <<"1", "2", "3", "4", "5", "6", "7">>[n] = weekday_str

\* Whether dt.datetime.strptime(text, DISPLAY_TIME_FMT) succeeds
IsTimeText(text) == text[1] \in 0..23 /\ text[2] \in 0..59

\* dt.datetime.strptime(text, DISPLAY_TIME_FMT).time()
ParseTime(text) == text[1] * 60 + text[2]

\* time.strftime(DISPLAY_TIME_FMT)
FormatTime(time) == <<time \div 60, time % 60>>

----------------------------------------------------------------------------
(* The data model *)

ElkaDay(date, parity, weekday) ==
    [date |-> date, parity |-> parity, weekday |-> weekday]

ElkaCourse(name, description, location, start_time, end_time, days) ==
    [name |-> name, description |-> description, location |-> location,
     start_time |-> start_time, end_time |-> end_time, days |-> days]

\* ElkaCourse.__str__ raises IndexError on self.days[0] when days is empty
StrRaises(course) == course.days = << >>

\* ElkaCourse.__str__, the fields of the formatted summary
CourseStr(course) ==
    <<course.name,
      IF course.description # "" THEN <<"(", course.description, ")">> ELSE << >>,
      "on", DayAbbr(course.days[1].date),
      "at", FormatTime(course.start_time),
      "in", course.location,
      Len(course.days), "classes">>

\* load_semester: one ElkaDay per row, in the order of the rows
LoadSemester(rows) ==
    [i \in 1..Len(rows) |->
        LET date == ParseDate(rows[i][1])
        IN  ElkaDay(date, rows[i][2],
                    IF rows[i][3] # "" THEN ParseInt(rows[i][3]) ELSE IsoWeekday(date))]

----------------------------------------------------------------------------
(* create_course: what it computes between its prompts *)

\* (dt.datetime.combine(dt.date(1, 1, 1), start_time) + dt.timedelta(minutes=105)).time()
\* The sum is a datetime; .time() keeps its time of day and drops the date.
EndTimeDefault(start_time) == (start_time + DefaultDuration) % MinutesPerDay

\* validate of 'Start time': the text is accepted when strptime returns
ValidateStart(text) == IsTimeText(text)

\* Variant of ValidateEnd: >= in place of >.
ValidateEnd_NotStrict(start_time, text) == IsTimeText(text) /\ ParseTime(text) >= start_time

\* validate of 'End time': a text strptime refuses raises, which the prompt
\* treats as a refusal like a false result
ValidateEnd(start_time, text) == IsTimeText(text) /\ ParseTime(text) > start_time

\* days_all = [d for d in semester if d.weekday == weekday]
DaysAll(sem, weekday) == SelectSeq(sem, LAMBDA d : d.weekday = weekday)

\* days_default = [d for d in days_all if d.parity in parities]
DaysDefault(days_all, parities) == SelectSeq(days_all, LAMBDA d : In(d.parity, parities))

\* What inquirer.checkbox may return: the entries the user leaves checked.
\* `default` only decides which boxes start checked; the user may uncheck and
\* check any of them, and the widget keeps the checked entries in the order
\* they were checked. So every order of every subset of the choices can come
\* back, the empty one included.
CheckboxResults(choices, default) == Arrangements(choices)

----------------------------------------------------------------------------
(* pickle: the items of the stream pickle.dump writes, and pickle.load *)

Proto == [op |-> "PROTO"]
EmptyList == [op |-> "EMPTY_LIST"]
Mark == [op |-> "MARK"]
Appends == [op |-> "APPENDS"]
Stop == [op |-> "STOP"]

\* A named tuple is pickled as its class and the tuple of its fields.
PickleDay(d) == [op |-> "NEWOBJ", cls |-> "ElkaDay", args |-> <<d.date, d.parity, d.weekday>>]

PickleCourse(c) ==
    [op |-> "NEWOBJ", cls |-> "ElkaCourse",
     args |-> <<c.name, c.description, c.location, c.start_time, c.end_time,
                [i \in 1..Len(c.days) |-> PickleDay(c.days[i])]>>]

UnpickleDay(item) == ElkaDay(item.args[1], item.args[2], item.args[3])

UnpickleCourse(item) ==
    ElkaCourse(item.args[1], item.args[2], item.args[3], item.args[4], item.args[5],
               [i \in 1..Len(item.args[6]) |-> UnpickleDay(item.args[6][i])])

\* Variant of Dumps: the list is written as it was before its last append.
Dumps_WithoutLast(cs) ==
    <<Proto, EmptyList>>
    \o (IF Len(cs) <= 1 THEN << >>
        ELSE <<Mark>> \o [i \in 1..(Len(cs) - 1) |-> PickleCourse(cs[i])] \o <<Appends>>)
    \o <<Stop>>

\* pickle.dump(courses, file): the whole stream
Dumps(cs) ==
    <<Proto, EmptyList>>
    \o (IF cs = << >> THEN << >>
        ELSE <<Mark>> \o [i \in 1..Len(cs) |-> PickleCourse(cs[i])] \o <<Appends>>)
    \o <<Stop>>

\* Whether pickle.load reads the stream to its STOP; short of it, it raises
\* EOFError (or UnpicklingError: pickle data was truncated).
Readable(data) ==
    /\ Len(data) >= 3
    /\ data[1] = Proto
    /\ data[2] = EmptyList
    /\ data[Len(data)] = Stop
    /\ Len(data) > 3 => (data[3] = Mark /\ data[Len(data) - 1] = Appends /\ Len(data) >= 6)

\* pickle.load of a readable stream
Loads(data) ==
    IF Len(data) = 3 THEN << >>
    ELSE [i \in 1..(Len(data) - 5) |-> UnpickleCourse(data[i + 3])]

NoFile == [exists |-> FALSE, data |-> << >>]

\* Variant of LoadStore: FileNotFoundError is not caught.
LoadStore_NoExcept(file) ==
    IF ~file.exists THEN [raised |-> "FileNotFoundError", value |-> << >>]
    ELSE IF ~Readable(file.data) THEN [raised |-> "EOFError", value |-> << >>]
    ELSE [raised |-> "", value |-> Loads(file.data)]

\* main, lines 162-165: try pickle.load(open(.., 'rb')) except FileNotFoundError: []
LoadStore(file) ==
    IF ~file.exists THEN [raised |-> "", value |-> << >>]
    ELSE IF ~Readable(file.data) THEN [raised |-> "EOFError", value |-> << >>]
    ELSE [raised |-> "", value |-> Loads(file.data)]

----------------------------------------------------------------------------
(* The menu and its actions *)

\* main, lines 167-175: the menu of one iteration. The remove entries hold
\* their course (lambda c=course), the other entries nothing.
MainMenu(cs) ==
    << [title |-> <<"Add course">>, kind |-> "add", course |-> << >>] >>
    \o [i \in 1..Len(cs) |->
           [title |-> <<"Remove", CourseStr(cs[i])>>, kind |-> "remove", course |-> <<cs[i]>>]]
    \o << [title |-> <<"Export to .ics">>, kind |-> "export", course |-> << >>],
          [title |-> <<"Save and exit">>, kind |-> "exit", course |-> << >>] >>

\* Building the menu formats every course (f'Remove {course}').
MenuRaises(cs) == \E i \in 1..Len(cs) : StrRaises(cs[i])

\* list.remove(x): the first item equal to x is deleted
ListRemove(list, x) ==
    LET first == CHOOSE i \in 1..Len(list) :
                     list[i] = x /\ \A j \in 1..(i - 1) : list[j] # x
    IN  SubSeq(list, 1, first - 1) \o SubSeq(list, first + 1, Len(list))

\* arrow.get(dt.datetime.combine(date, time), 'local'): an instant of the local zone
Instant(date, time) == <<date, time>>

\* Variant of ExportEvent: anchored at the earliest of the days, not the first.
ExportEvent_AnchorEarliest(course, uid) ==
    LET earliest == CHOOSE d \in Range(course.days) :
                        \A e \in Range(course.days) : d.date <= e.date
    IN  [uid |-> uid,
         name |-> course.name, description |-> course.description,
         location |-> course.location,
         begin |-> Instant(earliest.date, course.start_time),
         end |-> Instant(earliest.date, course.end_time),
         rdate |-> [j \in 1..Len(course.days) |->
                       Instant(course.days[j].date, course.start_time)]]

\* export, lines 130-138: the event of one course. uid stands for the unique
\* id every Event gets, which keeps equal courses' events apart in the set.
ExportEvent(course, uid) ==
    [uid |-> uid,
     name |-> course.name, description |-> course.description, location |-> course.location,
     begin |-> Instant(course.days[1].date, course.start_time),
     end |-> Instant(course.days[1].date, course.end_time),
     rdate |-> [j \in 1..Len(course.days) |-> Instant(course.days[j].date, course.start_time)]]

\* export raises IndexError on course.days[0] when a course has no days
ExportRaises(cs) == \E i \in 1..Len(cs) : cs[i].days = << >>

\* export: calendar.events, a set
Export(cs) == {ExportEvent(cs[i], i) : i \in 1..Len(cs)}

----------------------------------------------------------------------------
(* What the user and the file system supply *)

\* 22L.csv in the session: a Monday of an odd week, and a Tuesday that runs
\* Monday's timetable and carries no parity.
TermCsv == << <<"2022-02-28", "N", "">>, <<"2022-03-01", "", "1">> >>

Names == {"PROI"}
Descriptions == {"", "lab"}
Locations == {"s. 133"}

\* Texts typed at 'Start time' and at 'End time'; <<24, 0>> is no time.
StartInputs == {<<10, 0>>, <<24, 0>>}
EndInputs == {<<9, 0>>, <<10, 0>>, <<11, 45>>, <<24, 0>>}

NoChoice == [op |-> "none"]

Stopped == {"terminated", "killed", "IndexError", "EOFError"}

----------------------------------------------------------------------------
(* The session: main and the actions of its menu *)

Init ==
    /\ pc = "init"
    /\ term_file = TermCsv
    /\ semester = << >>
    /\ courses = << >>
    /\ courses_bound = FALSE
    /\ store = NoFile
    /\ choice = NoChoice

\* main, lines 158-159: the calendar name is asked and the term is loaded.
MainStart ==
    /\ pc = "init"
    /\ semester' = LoadSemester(term_file)
    /\ pc' = "top"
    /\ UNCHANGED <<term_file, courses, courses_bound, store, choice>>

\* main, lines 162-177 up to the prompt of show_menu: the list is loaded, the
\* menu is built and shown.
LoadAndRender ==
    /\ pc = "top"
    /\ LET loaded == LoadStore(store)
       IN  IF loaded.raised # ""
           THEN /\ pc' = loaded.raised
                /\ UNCHANGED <<courses, courses_bound>>
           ELSE /\ courses' = loaded.value
                /\ courses_bound' = TRUE
                /\ pc' = IF MenuRaises(loaded.value) THEN "IndexError" ELSE "menu"
    /\ choice' = NoChoice
    /\ UNCHANGED <<term_file, semester, store>>

\* 'Add course': create_course with everything the user enters, then
\* courses.append. A prompt with a validator asks again until it accepts;
\* `rejected` are the texts it refused on the way.
Add ==
    /\ pc = "menu"
    /\ Len(courses) < MaxCourses
    /\ \E name \in Names, description \in Descriptions, location \in Locations,
          w \in 1..Len(WEEKDAY_CHOICES), f \in 1..Len(PARITY_CHOICES),
          start_text \in {t \in StartInputs : ValidateStart(t)} :
          LET weekday == WEEKDAY_CHOICES[w][2]
              start_time == ParseTime(start_text)
              offered == EndInputs \cup {FormatTime(EndTimeDefault(start_time))}
              days_all == DaysAll(semester, weekday)
              days_default == DaysDefault(days_all, PARITY_CHOICES[f][2])
          IN  \E rejected \in SUBSET {t \in offered : ~ValidateEnd(start_time, t)},
                 end_text \in {t \in offered : ValidateEnd(start_time, t)},
                 days_selected \in CheckboxResults(days_all, days_default) :
                 /\ courses' = Append(courses,
                        ElkaCourse(name, description, location, start_time,
                                   ParseTime(end_text), days_selected))
                 /\ choice' = [op |-> "add", rejected |-> rejected]
    /\ pc' = "save"
    /\ UNCHANGED <<term_file, semester, courses_bound, store>>

\* 'Remove <course>', the entry of the course at position i: remove_course
Remove ==
    /\ pc = "menu"
    /\ \E i \in 1..Len(courses), confirm \in BOOLEAN :
          LET option == MainMenu(courses)[i + 1]
          IN  /\ courses' = IF confirm THEN ListRemove(courses, option.course[1])
                            ELSE courses
              /\ choice' = [op |-> "remove", index |-> i, confirm |-> confirm]
    /\ pc' = "save"
    /\ UNCHANGED <<term_file, semester, courses_bound, store>>

\* 'Export to .ics': export
ExportIcs ==
    /\ pc = "menu"
    /\ IF ExportRaises(courses)
       THEN /\ pc' = "IndexError"
            /\ choice' = NoChoice
       ELSE /\ pc' = "save"
            /\ choice' = [op |-> "export", doc |-> Export(courses)]
    /\ UNCHANGED <<term_file, semester, courses, courses_bound, store>>

\* 'Save and exit': exit() leaves main before line 179
Exit ==
    /\ pc = "menu"
    /\ pc' = "terminated"
    /\ UNCHANGED <<term_file, semester, courses, courses_bound, store, choice>>

\* main, line 179: open(.., 'wb') creates the file or cuts it to nothing
SaveOpen ==
    /\ pc = "save"
    /\ store' = [exists |-> TRUE, data |-> << >>]
    /\ choice' = NoChoice
    /\ pc' = "writing"
    /\ UNCHANGED <<term_file, semester, courses, courses_bound>>

\* main, line 179: pickle.dump writes the stream; the file holds a longer
\* part of it after every write, and all of it when the file is closed.
SaveWrite ==
    /\ pc = "writing"
    /\ LET stream == Dumps(courses)
       IN  \E n \in (Len(store.data) + 1)..Len(stream) :
              /\ store' = [exists |-> TRUE, data |-> SubSeq(stream, 1, n)]
              /\ pc' = IF n = Len(stream) THEN "top" ELSE "writing"
    /\ UNCHANGED <<term_file, semester, courses, courses_bound, choice>>

\* The process is stopped from outside (a kill, a power cut); files stay as they are.
Kill ==
    /\ pc \in {"top", "menu", "save", "writing"}
    /\ pc' = "killed"
    /\ courses' = << >>
    /\ courses_bound' = FALSE
    /\ choice' = NoChoice
    /\ UNCHANGED <<term_file, semester, store>>

\* The program is started again under the same calendar name.
Launch ==
    /\ pc \in Stopped
    /\ pc' = "init"
    /\ semester' = << >>
    /\ courses' = << >>
    /\ courses_bound' = FALSE
    /\ choice' = NoChoice
    /\ UNCHANGED <<term_file, store>>

Next ==
    \/ MainStart
    \/ LoadAndRender
    \/ Add
    \/ Remove
    \/ ExportIcs
    \/ Exit
    \/ SaveOpen
    \/ SaveWrite
    \/ Kill
    \/ Launch

Spec == Init /\ [][Next]_vars

----------------------------------------------------------------------------
(* create_course, lines 88-100, on its own: the two time prompts, for every
   start time of the day *)

\* Every text of two numbers the user may type, the ones that are no time included.
TimeTexts == (0..24) \X (0..60)

\* Texts typed at 'End time' besides accepting the pre-filled one.
TypedEndTexts == EndInputs \cup {<<0, 0>>, <<23, 59>>}

InitTimes ==
    /\ pc = "start_prompt"
    /\ term_file = TermCsv
    /\ semester = << >>
    /\ courses = << >>
    /\ courses_bound = FALSE
    /\ store = NoFile
    /\ choice = NoChoice

\* 'Start time': a refused text leaves the prompt open.
StartTimePrompt ==
    /\ pc = "start_prompt"
    /\ \E text \in TimeTexts :
          IF ValidateStart(text)
          THEN /\ pc' = "end_prompt"
               /\ choice' = [op |-> "start_time", start_time |-> ParseTime(text),
                             default_text |-> FormatTime(EndTimeDefault(ParseTime(text)))]
          ELSE UNCHANGED <<pc, choice>>
    /\ UNCHANGED <<term_file, semester, courses, courses_bound, store>>

\* 'End time': the user accepts the pre-filled text or types one.
EndTimePrompt ==
    /\ pc = "end_prompt"
    /\ \E text \in {choice.default_text} \cup TypedEndTexts :
          LET accepted == ValidateEnd(choice.start_time, text)
          IN  /\ pc' = IF accepted THEN "end_accepted" ELSE "end_refused"
              /\ choice' = [op |-> "end_time", start_time |-> choice.start_time,
                            default_text |-> choice.default_text, entered |-> text]
    /\ UNCHANGED <<term_file, semester, courses, courses_bound, store>>

\* A refused text: the prompt is shown again with the same default.
EndTimeAgain ==
    /\ pc = "end_refused"
    /\ pc' = "end_prompt"
    /\ choice' = [op |-> "start_time", start_time |-> choice.start_time,
                  default_text |-> choice.default_text]
    /\ UNCHANGED <<term_file, semester, courses, courses_bound, store>>

NextTimes ==
    \/ StartTimePrompt
    \/ EndTimePrompt
    \/ EndTimeAgain

SpecTimes == InitTimes /\ [][NextTimes]_vars

----------------------------------------------------------------------------
(* load_semester and create_course, lines 102-110, on their own: the dates
   offered and pre-selected, for every term file of the model *)

DateStrs == <<"2022-02-28", "2022-03-01", "2022-03-07", "2022-03-14">>
ParityTags == {"N", "P", "N/P", ""}
WeekdayStrs == {"", "1", "2"}

\* Term files: at most MaxRows rows, dates ascending.
TermFiles ==
    LET Rows(n) == [1..n -> (1..Len(DateStrs)) \X ParityTags \X WeekdayStrs]
        Ascending(r) == \A i \in 1..(Len(r) - 1) : r[i][1] < r[i + 1][1]
    IN  {[i \in 1..Len(r) |-> <<DateStrs[r[i][1]], r[i][2], r[i][3]>>] :
            r \in {q \in UNION {Rows(n) : n \in 0..MaxRows} : Ascending(q)}}

InitResolver ==
    /\ pc = "init"
    /\ term_file \in TermFiles
    /\ semester = << >>
    /\ courses = << >>
    /\ courses_bound = FALSE
    /\ store = NoFile
    /\ choice = NoChoice

\* 'Weekday' and 'Frequency' are chosen; 'Class dates' is shown.
DatesPrompt ==
    /\ pc = "top"
    /\ \E w \in 1..Len(WEEKDAY_CHOICES), f \in 1..Len(PARITY_CHOICES) :
          LET weekday == WEEKDAY_CHOICES[w][2]
              days_all == DaysAll(semester, weekday)
          IN  choice' = [op |-> "dates", weekday |-> weekday, frequency |-> f,
                         choices |-> days_all,
                         default |-> DaysDefault(days_all, PARITY_CHOICES[f][2])]
    /\ pc' = "dates_prompt"
    /\ UNCHANGED <<term_file, semester, courses, courses_bound, store>>

NextResolver ==
    \/ MainStart
    \/ DatesPrompt

SpecResolver == InitResolver /\ [][NextResolver]_vars

----------------------------------------------------------------------------
(* The properties *)

\* The courses the store holds, when pickle.load can read it.
Stored == IF store.exists /\ Readable(store.data) THEN Loads(store.data) ELSE << >>

\* list `list` without its entry at position i
DeleteAt(list, i) == SubSeq(list, 1, i - 1) \o SubSeq(list, i + 1, Len(list))

\* C1: every course of the in-memory list and of the persisted store has at
\* least one day; an add whose confirmed date selection is empty appends no course.
C1_DaysNonEmpty ==
    /\ \A i \in 1..Len(courses) : courses[i].days # << >>
    /\ \A i \in 1..Len(Stored) : Stored[i].days # << >>

\* C2: a completed add, remove or export is followed by a save before the next
\* menu: at the top of the loop the store holds exactly the in-memory list, the
\* load that follows leaves the list as the action left it, and at the menu the
\* store and the list agree, so that leaving by exit loses nothing.
C2_SavedBeforeNextMenu ==
    /\ [](pc = "top" /\ courses_bound =>
            LoadStore(store) = [raised |-> "", value |-> courses])
    /\ [][pc = "top" /\ courses_bound /\ pc' \in {"menu", "IndexError"} =>
            courses' = courses]_vars
    /\ [](pc = "menu" => LoadStore(store) = [raised |-> "", value |-> courses])

\* C2, its case: a menu shown over two courses, loaded back from the store that
\* the saves after the two adds wrote.
C2_Witness ==
    /\ pc = "menu"
    /\ Len(courses) = 2
    /\ store.exists
    /\ Loads(store.data) = courses

\* C3: a save is atomic: whenever the process may stop, the store is a complete
\* pickled list (the previous one or the new one), never empty or cut short.
C3_AtomicSave ==
    store.exists => Readable(store.data)

\* C4: the pre-selected dates are the term days of the chosen weekday for which
\* the frequency is Weekly or the day's parity is one of the frequency's tags,
\* in calendar order, all of them among the offered dates, which are the term
\* days of the chosen weekday.
C4_DefaultDates ==
    choice.op = "dates" =>
        LET f == PARITY_CHOICES[choice.frequency]
            Offered(d) == d.weekday = choice.weekday
            Wanted(d) == Offered(d) /\ (f[1] = "Weekly" \/ d.parity \in Range(f[2]))
        IN  /\ choice.choices = SelectSeq(semester, Offered)
            /\ choice.default = SelectSeq(semester, Wanted)
            /\ Range(choice.default) \subseteq Range(choice.choices)

\* C5: every course of the list and of the store ends strictly later than it
\* starts; an end time not later than the start is refused at the prompt.
C5_EndAfterStart ==
    /\ \A i \in 1..Len(courses) : courses[i].end_time > courses[i].start_time
    /\ \A i \in 1..Len(Stored) : Stored[i].end_time > Stored[i].start_time

\* C5, its case: a course was appended after the prompt refused an end time
\* equal to the start time.
C5_Witness ==
    /\ pc = "save"
    /\ choice.op = "add"
    /\ <<10, 0>> \in choice.rejected
    /\ courses[Len(courses)].start_time = 10 * 60

\* C6: export writes one event per course, anchored at the first entry of the
\* course's days at start_time and ending that date at end_time, with one
\* recurrence instant per entry of days, in their order, at start_time; it
\* completes for every list the session reaches and changes neither the list
\* nor the store, which already yields the list the save after it writes.
C6_ExportOneEventPerCourse ==
    /\ [](choice.op = "export" =>
            /\ Cardinality(choice.doc) = Len(courses)
            /\ \A i \in 1..Len(courses) :
                  \E e \in choice.doc :
                     LET c == courses[i]
                     IN  /\ e.name = c.name
                         /\ e.description = c.description
                         /\ e.location = c.location
                         /\ e.begin = <<c.days[1].date, c.start_time>>
                         /\ e.end = <<c.days[1].date, c.end_time>>
                         /\ Len(e.rdate) = Len(c.days)
                         /\ \A j \in 1..Len(c.days) :
                               e.rdate[j] = <<c.days[j].date, c.start_time>>)
    /\ [][pc = "menu" /\ (choice'.op = "export" \/ pc' = "IndexError") =>
            /\ pc' = "save"
            /\ choice'.op = "export"
            /\ courses' = courses
            /\ store' = store
            /\ LoadStore(store) = [raised |-> "", value |-> courses']]_vars

\* C6, its case: an export of two courses, one of them with its days out of
\* calendar order.
C6_Witness ==
    /\ choice.op = "export"
    /\ Len(courses) >= 2
    /\ \E i \in 1..Len(courses) :
          /\ Len(courses[i].days) = 2
          /\ courses[i].days[1].date > courses[i].days[2].date

\* C7: with no store for the calendar name the load gives the empty list and
\* the menu is shown over no course; the first save then creates the store.
C7_NoStoreLoadsEmpty ==
    /\ [][pc = "top" /\ ~store.exists /\ pc' # "killed" =>
            pc' = "menu" /\ courses' = << >> /\ courses_bound']_vars
    /\ [][pc = "save" /\ ~store.exists /\ pc' # "killed" => store'.exists]_vars
    /\ [](pc = "top" /\ courses_bound => store.exists)

\* C7, its case: the menu of a session that found no store.
C7_Witness ==
    /\ pc = "menu"
    /\ ~store.exists
    /\ courses_bound
    /\ courses = << >>

\* C8: a remove chosen for the course at position i, when declined, changes
\* neither the list nor the store; when confirmed, leaves the list without
\* exactly its entry at position i.
C8_RemoveAtPosition ==
    [][pc = "menu" /\ choice'.op = "remove" =>
          IF choice'.confirm
          THEN courses' = DeleteAt(courses, choice'.index)
          ELSE courses' = courses /\ store' = store]_vars

\* C9: at every iteration the menu is built: one add entry, one remove entry
\* per course with the course's summary, one export entry and one exit entry;
\* building it never fails.
C9_MenuAlwaysRenders ==
    /\ pc # "IndexError"
    /\ pc = "menu" =>
          LET menu == MainMenu(courses)
          IN  /\ Len(menu) = Len(courses) + 3
              /\ menu[1].kind = "add"
              /\ \A i \in 1..Len(courses) :
                    /\ menu[i + 1].kind = "remove"
                    /\ menu[i + 1].title = <<"Remove", CourseStr(courses[i])>>
              /\ menu[Len(menu) - 1].kind = "export"
              /\ menu[Len(menu)].kind = "exit"

\* C10: for every start time the pre-filled end time is the start
\* plus 105 minutes, later than the start, and is accepted when entered.
C10_DefaultAlwaysAccepted ==
    (choice.op = "end_time" /\ choice.entered = choice.default_text) =>
        /\ ParseTime(choice.default_text) = choice.start_time + DefaultDuration
        /\ ParseTime(choice.default_text) > choice.start_time
        /\ pc = "end_accepted"

\* C10, what the code does in its place: for a start time up to 22:14 the
\* pre-filled end time is the start plus 105 minutes and is accepted when
\* entered; from 22:15 on it is the start plus 105 minutes less one day,
\* earlier than the start, and is refused when entered.
C10_DefaultAcceptedBeforeWrap ==
    (choice.op = "end_time" /\ choice.entered = choice.default_text) =>
        IF choice.start_time + DefaultDuration < MinutesPerDay
        THEN /\ ParseTime(choice.default_text) = choice.start_time + DefaultDuration
             /\ pc = "end_accepted"
        ELSE /\ ParseTime(choice.default_text) =
                    choice.start_time + DefaultDuration - MinutesPerDay
             /\ ParseTime(choice.default_text) < choice.start_time
             /\ pc = "end_refused"

\* C10, its case: the pre-filled 23:59 of a start at 22:14 was accepted.
C10_Witness ==
    /\ pc = "end_accepted"
    /\ choice.start_time = 22 * 60 + 14
    /\ choice.entered = choice.default_text
    /\ choice.default_text = <<23, 59>>

====
